---- MODULE Spec2Model ----
(***************************************************************************)
(* CareerCraft ATS Tracker (src/app.py): a Streamlit script.  Streamlit    *)
(* executes the whole script top to bottom once per page load and once     *)
(* more after every widget interaction; module-level statements therefore  *)
(* run in every script run.  Strings are sequences of one-character        *)
(* strings; fixed literals are sequences of tokens.                        *)
(***************************************************************************)
EXTENDS Integers, Sequences, FiniteSets, TLC

\* ---------------------------------------------------------------- bounds
MaxTextLen == 4         \* longest text handed to truncate (utility spec)
MaxBudget == 3          \* largest max_chars handed to truncate (utility spec)
MaxPages == 2           \* pages of a document handed to input_pdf_text (utility spec)
MaxPageLen == 1         \* characters of text on one page (utility spec)
MaxUploadPages == 1     \* pages of an uploaded resume (application spec)
MaxJdLen == 3           \* characters typed into the job-description field
MaxRespLen == 1         \* characters of text returned by the service
MaxListed == 1          \* entries returned by genai.list_models()
MaxInteractions == 2    \* reruns after the first page load
JdBudget == 2           \* stands for the 7000 of truncate(job_desc, 7000)
CvBudget == 2           \* stands for the 9000 of truncate(resume_text, 9000)

\* ---------------------------------------------------------------- strings
Char == {"a", " "}
Whitespace == {" "}
EmptyStr == << >>

StringsUpTo(n) == UNION {[1..k -> Char] : k \in 0..n}

Take(s, n) == SubSeq(s, 1, n)

RECURSIVE lstrip(_)
lstrip(s) ==
    IF s # << >> /\ Head(s) \in Whitespace THEN lstrip(Tail(s)) ELSE s

RECURSIVE rstrip(_)
rstrip(s) ==
    IF s # << >> /\ s[Len(s)] \in Whitespace THEN rstrip(Take(s, Len(s) - 1)) ELSE s

strip_noop(s) == s

\* str.strip(): leading and trailing whitespace removed
strip(s) == rstrip(lstrip(s))

IsBlank_inverted(text) == strip(text) # EmptyStr

\* not resume_text.strip()
IsBlank(text) == strip(text) = EmptyStr

RECURSIVE Join(_)
\* "".join(texts)
Join(texts) ==
    IF texts = << >> THEN << >> ELSE Head(texts) \o Join(Tail(texts))

RECURSIVE JoinReversed(_)
JoinReversed(texts) ==
    IF texts = << >> THEN << >> ELSE JoinReversed(Tail(texts)) \o Head(texts)

\* ---------------------------------------------------------------- truncate
TRUNC_MARKER == <<"\n", "\n", "[...truncated due to length...]">>

truncate_ge(text, max_chars) ==
    IF text # << >> /\ Len(text) >= max_chars
    THEN Take(text, max_chars - 1) \o TRUNC_MARKER
    ELSE text

\* text[:max_chars] for max_chars >= 0
truncate(text, max_chars) ==
    IF text # << >> /\ Len(text) > max_chars
    THEN Take(text, max_chars) \o TRUNC_MARKER
    ELSE text

\* ---------------------------------------------------------------- input_pdf_text
\* A page is what page.extract_text() does: returns text, returns None, or raises.
PageText  == [kind : {"text"}, text : StringsUpTo(MaxPageLen)]
PageNone  == [kind |-> "none", text |-> EmptyStr]
PageRaise == [kind |-> "raise", text |-> EmptyStr]
Pages == PageText \cup {PageNone, PageRaise}

PageSeqs(n) == UNION {[1..k -> Pages] : k \in 0..n}

\* The argument of input_pdf_text.  hasRead: a file-like object (an upload);
\* otherwise a path that open() may fail on.  readerOk: PyPDF2.PdfReader
\* accepts it.  closedReadOk: for a path, whether the pages can still be read
\* once the with-block has closed the file (decided by the library).
PdfArgs(n) ==
    [hasRead : BOOLEAN, openOk : BOOLEAN, readerOk : BOOLEAN,
     closedReadOk : BOOLEAN, pages : PageSeqs(n)]

\* page.extract_text() or ""
ExtractOrEmpty(page) == IF page.kind = "text" THEN page.text ELSE EmptyStr

\* True when building the reader or walking reader.pages raises
PdfRaises(pdf) ==
    \/ ~pdf.hasRead /\ ~pdf.openOk
    \/ ~pdf.readerOk
    \/ ~pdf.hasRead /\ ~pdf.closedReadOk
    \/ \E i \in 1..Len(pdf.pages) : pdf.pages[i].kind = "raise"

RECURSIVE TextsBefore(_, _)
\* the texts list as accumulated up to the first page that raises
TextsBefore(pages, acc) ==
    IF pages = << >> \/ Head(pages).kind = "raise" THEN acc
    ELSE TextsBefore(Tail(pages), Append(acc, ExtractOrEmpty(Head(pages))))

input_pdf_text_partial(pdf) ==
    IF ~pdf.readerOk \/ (~pdf.hasRead /\ ~(pdf.openOk /\ pdf.closedReadOk))
    THEN [ret |-> EmptyStr, error |-> TRUE, raised |-> FALSE]
    ELSE [ret |-> Join(TextsBefore(pdf.pages, << >>)),
          error |-> PdfRaises(pdf), raised |-> FALSE]

input_pdf_text_reversed(pdf) ==
    IF PdfRaises(pdf)
    THEN [ret |-> EmptyStr, error |-> TRUE, raised |-> FALSE]
    ELSE [ret |-> JoinReversed(TextsBefore(pdf.pages, << >>)),
          error |-> FALSE, raised |-> FALSE]

\* ret: the returned string; error: st.error/st.exception were shown;
\* raised: an exception left the function
input_pdf_text(pdf) ==
    IF PdfRaises(pdf)
    THEN [ret |-> EmptyStr, error |-> TRUE, raised |-> FALSE]
    ELSE [ret |-> Join(TextsBefore(pdf.pages, << >>)),
          error |-> FALSE, raised |-> FALSE]

\* ---------------------------------------------------------------- credentials
Absent == "<absent>"            \* the name is not set: .get()/getenv() give None
CredVals == {Absent, "", "k"}
CredNames == {"GEMINI_API_KEY", "GOOGLE_API_KEY"}
CredStores == [CredNames -> CredVals]

Truthy(v) == v # Absent /\ v # ""

\* Python's  a or b
PyOr(a, b) == IF Truthy(a) THEN a ELSE b

_get_api_key_default(sec, env) ==
    PyOr(PyOr(PyOr(PyOr(sec["GEMINI_API_KEY"], sec["GOOGLE_API_KEY"]),
                   env["GEMINI_API_KEY"]), env["GOOGLE_API_KEY"]), "k")

_get_api_key(sec, env) ==
    PyOr(PyOr(PyOr(sec["GEMINI_API_KEY"], sec["GOOGLE_API_KEY"]),
              env["GEMINI_API_KEY"]), env["GOOGLE_API_KEY"])

\* ---------------------------------------------------------------- the service
ErrKinds == {"auth", "quota"}      \* exceptions of a service call, by cause
NoBackend == "no_backend"       \* RuntimeError("No usable Gemini model ...")

Prefs == <<"gemini-1.5-flash", "gemini-1.5-pro", "gemini-1.5-flash-8b", "gemini-1.0-pro">>
ProbeOrder == <<"gemini-1.5-pro", "gemini-1.5-flash", "gemini-1.0-pro">>
ProbeNames == {ProbeOrder[i] : i \in 1..Len(ProbeOrder)}

\* what genai.list_models() can yield: an exception, or model descriptions
ListedNames == {"gemini-1.5-pro", "models/gemini-pro", ""}
ListedModels == [name : ListedNames, gen : BOOLEAN]
Listings ==
    {[ok |-> FALSE, models |-> << >>]} \cup
    [ok : {TRUE}, models : UNION {[1..k -> ListedModels] : k \in 0..MaxListed}]

IsAvail(m) == m.gen /\ m.name # ""

RECURSIVE FirstOf(_, _)
\* first element of seq that is in the set S, "" when there is none
FirstOf(seq, S) ==
    IF seq = << >> THEN ""
    ELSE IF Head(seq) \in S THEN Head(seq) ELSE FirstOf(Tail(seq), S)

RECURSIVE IndexOf(_, _, _)
\* position of the first element of seq in S counted from i, 0 when none
IndexOf(seq, S, i) ==
    IF seq = << >> THEN 0
    ELSE IF Head(seq) \in S THEN i ELSE IndexOf(Tail(seq), S, i + 1)

\* name: the return value; raised: RuntimeError was raised;
\* probes: generate_content("ping") calls made by the probing loop
pick_available_model(listing, okProbes) ==
    LET avail == SelectSeq(listing.models, IsAvail)
        names == {avail[i].name : i \in 1..Len(avail)}
        pref  == FirstOf(Prefs, names)
        hit   == IndexOf(ProbeOrder, okProbes, 1)
    IN  IF listing.ok /\ pref # "" THEN [name |-> pref, raised |-> FALSE, probes |-> 0]
        ELSE IF listing.ok /\ avail # << >>
             THEN [name |-> avail[1].name, raised |-> FALSE, probes |-> 0]
        ELSE IF hit # 0 THEN [name |-> ProbeOrder[hit], raised |-> FALSE, probes |-> hit]
        ELSE [name |-> "", raised |-> TRUE, probes |-> Len(ProbeOrder)]

\* what model.generate_content(prompt) can do: raise, or give a response
\* whose text attribute is a string or is missing
Replies ==
    [ok : {TRUE}, hasText : {TRUE}, text : StringsUpTo(MaxRespLen), err : {"none"}]
    \cup {[ok |-> TRUE, hasText |-> FALSE, text |-> EmptyStr, err |-> "none"]}
    \cup [ok : {FALSE}, hasText : {FALSE}, text : {EmptyStr}, err : ErrKinds]

NoReply == [ok |-> FALSE, hasText |-> FALSE, text |-> EmptyStr, err |-> "not_called"]

NO_TEXT == <<"No text returned.">>
REQUEST_FAILED == <<"Gemini request failed. See error above.">>

get_gemini_response_nocatch(reply) ==
    IF reply.ok
    THEN [ret |-> IF reply.hasText /\ reply.text # EmptyStr THEN reply.text ELSE NO_TEXT,
          error |-> FALSE, raised |-> FALSE]
    ELSE [ret |-> EmptyStr, error |-> FALSE, raised |-> TRUE]

get_gemini_response_stripped(reply) ==
    IF reply.ok
    THEN [ret |-> IF reply.hasText /\ strip(reply.text) # EmptyStr
                  THEN strip(reply.text) ELSE NO_TEXT,
          error |-> FALSE, raised |-> FALSE]
    ELSE [ret |-> REQUEST_FAILED, error |-> TRUE, raised |-> FALSE]

\* ret: the returned string; error: st.error/st.exception were shown;
\* raised: an exception left the function
get_gemini_response(reply) ==
    IF reply.ok
    THEN [ret |-> IF reply.hasText /\ reply.text # EmptyStr THEN reply.text ELSE NO_TEXT,
          error |-> FALSE, raised |-> FALSE]
    ELSE [ret |-> REQUEST_FAILED, error |-> TRUE, raised |-> FALSE]

\* ---------------------------------------------------------------- submit handler
PROMPT_HEAD == <<"You are an ATS expert. [...] Keep the tone objective and specific.\n\n">>
JD_HEAD == <<"--- JOB DESCRIPTION ---\n">>
CV_HEAD == <<"\n", "\n", "--- RESUME ---\n">>
PROMPT_TAIL == <<"\n">>

BuildPrompt(jd_text, cv_text) ==
    PROMPT_HEAD \o JD_HEAD \o jd_text \o CV_HEAD \o cv_text \o PROMPT_TAIL

NoPdf ==
    [hasRead |-> TRUE, openOk |-> TRUE, readerOk |-> TRUE, closedReadOk |-> TRUE,
     pages |-> << >>]
NoUpload == [present |-> FALSE, pdf |-> NoPdf]

\* the pages of an uploaded resume: without text, failing, or one character
UploadPages ==
    {PageNone, PageRaise} \cup [kind : {"text"}, text : [1..1 -> Char]]

\* what st.file_uploader can return: None or an uploaded file object
Uploads ==
    {NoUpload}
    \cup [present : {TRUE},
          pdf : [hasRead : {TRUE}, openOk : {TRUE}, readerOk : {TRUE},
                 closedReadOk : {TRUE},
                 pages : UNION {[1..k -> UploadPages] : k \in 0..MaxUploadPages}]]
    \cup {[present |-> TRUE, pdf |-> [NoPdf EXCEPT !.readerOk = FALSE]]}

\* what st.text_area can return
JobDescs == UNION {[1..k -> {"a"}] : k \in 0..MaxJdLen}

NoRun ==
    [shown |-> {}, resume_text |-> EmptyStr, truncated |-> FALSE, prompt |-> EmptyStr,
     called |-> FALSE, response |-> EmptyStr, raised |-> FALSE, err |-> "none"]

\* the body of  if st.button(...):  for one press
submit_handler(jd, up, reply) ==
    IF jd = EmptyStr THEN [NoRun EXCEPT !.shown = {"warn_jd"}]
    ELSE IF ~up.present THEN [NoRun EXCEPT !.shown = {"warn_upload"}]
    ELSE
      LET ex == input_pdf_text(up.pdf)
          exShown == IF ex.error THEN {"err_pdf"} ELSE {}
      IN  IF ex.raised THEN [NoRun EXCEPT !.shown = exShown, !.raised = TRUE]
          ELSE IF IsBlank(ex.ret)
          THEN [NoRun EXCEPT !.shown = exShown \cup {"warn_extract"},
                             !.resume_text = ex.ret]
          ELSE
            LET jd_text == truncate(jd, JdBudget)
                cv_text == truncate(ex.ret, CvBudget)
                g == get_gemini_response(reply)
            IN  [shown |-> exShown \cup {"result_header"}
                             \cup (IF g.error THEN {"err_gemini"} ELSE {})
                             \cup (IF g.raised THEN {} ELSE {"result"}),
                 resume_text |-> ex.ret,
                 truncated |-> TRUE,
                 prompt |-> BuildPrompt(jd_text, cv_text),
                 called |-> TRUE,
                 response |-> g.ret,
                 raised |-> g.raised,
                 err |-> reply.err]

\* ---------------------------------------------------------------- state
VARIABLES
    secrets,          \* st.secrets
    environ,          \* os.environ after load_dotenv()
    pc,               \* position of the current script run
    API_KEY,          \* module global of the current run
    configured,       \* genai.configure(api_key=...) was called in this run
    MODEL_NAME,       \* module global of the current run, "" while unset
    shown,            \* what the current run has put on the page
    job_desc,         \* value of the text area
    uploaded_resume,  \* value of the file uploader
    pressed,          \* st.button(...) is True in this run
    run,              \* what the submit handler did in this run
    reply,            \* what the service answered to the analysis call
    calls,            \* service calls made by the current run
    svcErr,           \* kind of the service failure reported in this run
    uncaught,         \* an exception left the script
    modelInits,       \* script runs of this process that selected and pinged a model
    interactions,     \* reruns since the process started
    failedBefore,     \* an earlier run of this process showed a warning or error
    u_fn, u_text, u_max, u_pdf, u_out, u_done   \* one call of a utility function

appVars ==
    <<secrets, environ, pc, API_KEY, configured, MODEL_NAME, shown, job_desc,
      uploaded_resume, pressed, run, reply, calls, svcErr, uncaught, modelInits,
      interactions, failedBefore>>
utilVars == <<u_fn, u_text, u_max, u_pdf, u_out, u_done>>
vars == <<appVars, utilVars>>

NoCalls == [list |-> 0, probe |-> 0, ping |-> 0, analysis |-> 0]
NoOut == [ret |-> EmptyStr, error |-> FALSE, raised |-> FALSE]

FailureTags ==
    {"err_no_key", "err_init", "warn_jd", "warn_upload", "err_pdf", "warn_extract",
     "err_gemini"}

\* the state every script run starts from
FreshRun ==
    /\ pc = "start"
    /\ API_KEY = Absent
    /\ configured = FALSE
    /\ MODEL_NAME = ""
    /\ shown = {}
    /\ run = NoRun
    /\ reply = NoReply
    /\ calls = NoCalls
    /\ svcErr = "none"

UtilIdle ==
    /\ u_fn = "none"
    /\ u_text = EmptyStr
    /\ u_max = 0
    /\ u_pdf = NoPdf
    /\ u_out = NoOut
    /\ u_done = FALSE

\* first page load of a fresh process: the widgets hold their defaults
FirstLoad ==
    /\ FreshRun
    /\ job_desc = EmptyStr
    /\ uploaded_resume = NoUpload
    /\ pressed = FALSE
    /\ uncaught = FALSE
    /\ modelInits = 0
    /\ interactions = 0
    /\ failedBefore = FALSE
    /\ UtilIdle

\* a deployment whose key is set in Streamlit Secrets
Init ==
    /\ secrets = [n \in CredNames |-> IF n = "GEMINI_API_KEY" THEN "k" ELSE Absent]
    /\ environ = [n \in CredNames |-> Absent]
    /\ FirstLoad

\* every configuration of the four credential sources
InitStartup ==
    /\ secrets \in CredStores
    /\ environ \in CredStores
    /\ FirstLoad

\* ---------------------------------------------------------------- one script run
\* lines 36-41: resolve the key, stop without one, configure the SDK
KeyCheck ==
    /\ pc = "start"
    /\ LET key == _get_api_key(secrets, environ)
       IN  /\ API_KEY' = key
           /\ IF ~Truthy(key)
              THEN /\ shown' = shown \cup {"err_no_key"}
                   /\ pc' = "stopped"
                   /\ configured' = FALSE
              ELSE /\ shown' = shown
                   /\ pc' = "configured"
                   /\ configured' = TRUE
    /\ UNCHANGED <<secrets, environ, MODEL_NAME, job_desc, uploaded_resume, pressed,
                   run, reply, calls, svcErr, uncaught, modelInits, interactions,
                   failedBefore, utilVars>>

\* lines 57-73: the diagnostics expander lists the models; a failure of the
\* listing is caught and only adds a warning inside the expander
Diagnostics ==
    /\ pc = "configured"
    /\ shown' = shown \cup {"diagnostics"}
    /\ calls' = [calls EXCEPT !.list = @ + 1]
    /\ pc' = "diagnosed"
    /\ UNCHANGED <<secrets, environ, API_KEY, configured, MODEL_NAME, job_desc,
                   uploaded_resume, pressed, run, reply, svcErr, uncaught, modelInits,
                   interactions, failedBefore, utilVars>>

\* lines 107-116: pick a model, ping it, stop the run when either fails
SelectModel ==
    /\ pc = "diagnosed"
    /\ \E listing \in Listings, okProbes \in SUBSET ProbeNames,
          ping \in {"ok"} \cup ErrKinds :
         LET pick == pick_available_model(listing, okProbes)
             failed == pick.raised \/ ping # "ok"
         IN  /\ MODEL_NAME' = pick.name
             /\ calls' = [calls EXCEPT !.list = @ + 1,
                                       !.probe = pick.probes,
                                       !.ping = IF pick.raised THEN 0 ELSE 1]
             /\ svcErr' = IF pick.raised THEN NoBackend
                          ELSE IF ping # "ok" THEN ping ELSE "none"
             /\ shown' = shown \cup (IF pick.raised THEN {} ELSE {"info_model"})
                               \cup (IF failed THEN {"err_init"} ELSE {})
             /\ pc' = IF failed THEN "stopped" ELSE "ready"
             /\ modelInits' = IF failed THEN modelInits ELSE modelInits + 1
    /\ UNCHANGED <<secrets, environ, API_KEY, configured, job_desc, uploaded_resume,
                   pressed, run, reply, uncaught, interactions, failedBefore,
                   utilVars>>

\* lines 173-275: the page; the submit handler runs when the button was pressed
Page ==
    /\ pc = "ready"
    /\ \E r \in Replies :
         LET h == IF pressed THEN submit_handler(job_desc, uploaded_resume, r)
                  ELSE NoRun
         IN  /\ run' = h
             /\ reply' = IF h.called THEN r ELSE NoReply
             /\ calls' = [calls EXCEPT !.analysis = IF h.called THEN 1 ELSE 0]
             /\ svcErr' = IF h.called /\ h.err # "none" THEN h.err ELSE svcErr
             /\ uncaught' = h.raised
             /\ shown' = IF h.raised
                         THEN shown \cup {"intro", "controls"} \cup h.shown
                         ELSE shown \cup {"intro", "controls", "faq"} \cup h.shown
             /\ pc' = IF h.raised THEN "stopped" ELSE "done"
    /\ UNCHANGED <<secrets, environ, API_KEY, configured, MODEL_NAME, job_desc,
                   uploaded_resume, pressed, modelInits, interactions, failedBefore,
                   utilVars>>

\* ---------------------------------------------------------------- reruns
StartRun ==
    /\ pc' = "start"
    /\ API_KEY' = Absent
    /\ configured' = FALSE
    /\ MODEL_NAME' = ""
    /\ shown' = {}
    /\ run' = NoRun
    /\ reply' = NoReply
    /\ calls' = NoCalls
    /\ svcErr' = "none"
    /\ uncaught' = FALSE
    /\ interactions' = interactions + 1
    /\ failedBefore' = (failedBefore \/ shown \cap FailureTags # {})
    /\ UNCHANGED <<secrets, environ, modelInits, utilVars>>

\* the user edits the widgets of lines 220-223; Streamlit reruns the script
Interact ==
    /\ pc \in {"done", "stopped"}
    /\ "controls" \in shown
    /\ interactions < MaxInteractions
    /\ \E jd \in JobDescs, up \in Uploads, b \in BOOLEAN :
         /\ job_desc' = jd
         /\ uploaded_resume' = up
         /\ pressed' = b
    /\ StartRun

\* the user reloads the page: a new session, widgets back to their defaults
Reload ==
    /\ pc \in {"done", "stopped"}
    /\ interactions < MaxInteractions
    /\ job_desc' = EmptyStr
    /\ uploaded_resume' = NoUpload
    /\ pressed' = FALSE
    /\ StartRun

Next == KeyCheck \/ Diagnostics \/ SelectModel \/ Page \/ Interact \/ Reload

Spec == Init /\ [][Next]_vars

\* page loads and reloads under every credential configuration
NextStartup == KeyCheck \/ Diagnostics \/ SelectModel \/ Page \/ Reload

SpecStartup == InitStartup /\ [][NextStartup]_vars

\* ---------------------------------------------------------------- utility calls
InitUtil ==
    /\ secrets = [n \in CredNames |-> Absent]
    /\ environ = [n \in CredNames |-> Absent]
    /\ FreshRun
    /\ job_desc = EmptyStr
    /\ uploaded_resume = NoUpload
    /\ pressed = FALSE
    /\ uncaught = FALSE
    /\ modelInits = 0
    /\ interactions = 0
    /\ failedBefore = FALSE
    /\ u_done = FALSE
    /\ u_out = NoOut
    /\ \/ /\ u_fn = "truncate"
          /\ u_text \in StringsUpTo(MaxTextLen)
          /\ u_max \in 0..MaxBudget
          /\ u_pdf = NoPdf
       \/ /\ u_fn = "input_pdf_text"
          /\ u_text = EmptyStr
          /\ u_max = 0
          /\ u_pdf \in PdfArgs(MaxPages)

CallTruncate ==
    /\ u_fn = "truncate"
    /\ ~u_done
    /\ u_out' = [ret |-> truncate(u_text, u_max), error |-> FALSE, raised |-> FALSE]
    /\ u_done' = TRUE
    /\ UNCHANGED <<appVars, u_fn, u_text, u_max, u_pdf>>

CallInputPdfText ==
    /\ u_fn = "input_pdf_text"
    /\ ~u_done
    /\ u_out' = input_pdf_text(u_pdf)
    /\ u_done' = TRUE
    /\ UNCHANGED <<appVars, u_fn, u_text, u_max, u_pdf>>

NextUtil == CallTruncate \/ CallInputPdfText

SpecUtil == InitUtil /\ [][NextUtil]_vars

\* ---------------------------------------------------------------- properties
RECURSIVE PageTextsUpTo(_, _)
\* page 1's text, then page 2's, ... up to page k; a page without text adds nothing
PageTextsUpTo(pages, k) ==
    IF k = 0 THEN << >>
    ELSE PageTextsUpTo(pages, k - 1)
         \o (IF pages[k].kind = "text" THEN pages[k].text ELSE << >>)

NoPageRaises(pdf) == \A i \in 1..Len(pdf.pages) : pdf.pages[i].kind # "raise"
Readable(pdf) ==
    /\ pdf.hasRead \/ (pdf.openOk /\ pdf.closedReadOk)
    /\ pdf.readerOk
    /\ NoPageRaises(pdf)
OnlyWhitespace(text) == \A i \in 1..Len(text) : text[i] \in Whitespace
GenerateCalls == calls.probe + calls.ping + calls.analysis
RunEnded == pc \in {"done", "stopped"}

\* C1: truncate(text, max_chars) returns text unchanged when text is shorter
\* than the budget; when text is longer it returns the first max_chars
\* characters followed by the marker, of length max_chars + len(marker).
C1_Truncate ==
    (u_fn = "truncate" /\ u_done) =>
        /\ Len(u_text) < u_max => u_out.ret = u_text
        /\ Len(u_text) > u_max =>
             /\ u_out.ret = SubSeq(u_text, 1, u_max) \o TRUNC_MARKER
             /\ Len(u_out.ret) = u_max + Len(TRUNC_MARKER)

C1_Witness ==
    /\ u_fn = "truncate" /\ u_done
    /\ u_max > 0
    /\ Len(u_text) > u_max
    /\ u_out.ret = SubSeq(u_text, 1, u_max) \o TRUNC_MARKER

\* C4: for a readable document input_pdf_text returns the page texts joined in
\* page order without separator, a page without text adding the empty string,
\* and neither raises nor reports an error.
C4_Concatenation ==
    (u_fn = "input_pdf_text" /\ u_done /\ Readable(u_pdf)) =>
        /\ u_out.ret = PageTextsUpTo(u_pdf.pages, Len(u_pdf.pages))
        /\ ~u_out.raised
        /\ ~u_out.error

C4_Witness ==
    /\ u_fn = "input_pdf_text" /\ u_done /\ Readable(u_pdf)
    /\ Len(u_pdf.pages) = 2
    /\ u_pdf.pages[1].kind = "none"
    /\ u_pdf.pages[2].kind = "text" /\ u_pdf.pages[2].text # << >>
    /\ u_out.ret = u_pdf.pages[2].text

\* C5: input_pdf_text never raises; when opening the payload, building the
\* reader or extracting a page fails, it reports the failure and returns the
\* empty string, dropping the text of the pages read before the failure.
C5_NeverRaises ==
    (u_fn = "input_pdf_text" /\ u_done) =>
        /\ ~u_out.raised
        /\ ~Readable(u_pdf) => (u_out.error /\ u_out.ret = << >>)

C5_Witness ==
    /\ u_fn = "input_pdf_text" /\ u_done
    /\ u_pdf.hasRead /\ u_pdf.readerOk
    /\ Len(u_pdf.pages) = 2
    /\ u_pdf.pages[1].kind = "text" /\ u_pdf.pages[1].text # << >>
    /\ u_pdf.pages[2].kind = "raise"
    /\ u_out.error /\ u_out.ret = << >>

\* C2 (as stated): in a run started by pressing Submit with an empty job
\* description or without an upload, generate_content is never called.
C2_NoServiceCall ==
    (pc = "done" /\ pressed /\ (job_desc = << >> \/ ~uploaded_resume.present)) =>
        GenerateCalls = 0

\* C3: when input_pdf_text returns an empty or whitespace-only string the
\* handler applies no truncate, builds no prompt, does not call
\* get_gemini_response, and shows the extraction warning.
C3_BlankExtractionBlocked ==
    (pc = "done" /\ pressed /\ job_desc # << >> /\ uploaded_resume.present
       /\ OnlyWhitespace(run.resume_text)) =>
        /\ ~run.truncated
        /\ run.prompt = << >>
        /\ ~run.called
        /\ calls.analysis = 0
        /\ "result" \notin shown
        /\ "warn_extract" \in shown

C3_Witness ==
    /\ pc = "done" /\ pressed /\ job_desc # << >> /\ uploaded_resume.present
    /\ Readable(uploaded_resume.pdf)
    /\ run.resume_text = <<" ">>
    /\ "warn_extract" \in shown
    /\ ~run.called

PromptOf(jd, cv) ==
    <<"You are an ATS expert. [...] Keep the tone objective and specific.\n\n",
      "--- JOB DESCRIPTION ---\n">> \o jd \o <<"\n", "\n", "--- RESUME ---\n">>
      \o cv \o <<"\n">>

\* C6 (as stated): whenever the external call succeeds with a text,
\* get_gemini_response returns that text unchanged, the empty text included.
C6_VerbatimAlways ==
    (run.called /\ reply.ok /\ reply.hasText) => run.response = reply.text

\* C6 (amended): when the external call succeeds with a non-empty text,
\* get_gemini_response returns it unchanged; with an empty or missing text it
\* returns "No text returned."; and when both inputs are under their budgets
\* the prompt holds the job description and the resume text unmodified.
C6_VerbatimNonEmpty ==
    run.called =>
        /\ (reply.ok /\ reply.hasText /\ reply.text # << >>) => run.response = reply.text
        /\ (reply.ok /\ (~reply.hasText \/ reply.text = << >>)) => run.response = NO_TEXT
        /\ (Len(job_desc) < JdBudget /\ Len(run.resume_text) < CvBudget) =>
             run.prompt = PromptOf(job_desc, run.resume_text)

C6_Witness ==
    /\ pc = "done" /\ run.called /\ reply.ok
    /\ reply.text = <<" ">> /\ run.response = <<" ">>
    /\ Len(job_desc) < JdBudget /\ Len(run.resume_text) < CvBudget
    /\ run.prompt = PromptOf(job_desc, run.resume_text)
    /\ "result" \in shown

ClaimedKinds == {"auth", "quota", NoBackend}

\* C7 (as stated): for an authentication, quota or no-usable-backend failure
\* the application shows a diagnostic, the invocation component returns the
\* sentinel failure string, and no exception leaves the script.
C7_SentinelAlways ==
    (RunEnded /\ svcErr \in ClaimedKinds) =>
        /\ shown \cap {"err_init", "err_gemini"} # {}
        /\ run.response = REQUEST_FAILED
        /\ ~uncaught

\* C7 (amended): no service failure leaves the script as an exception.  One
\* raised by the analysis call shows a diagnostic and makes
\* get_gemini_response return the sentinel string; one raised while the model
\* is selected or pinged (which is where no-usable-backend arises) shows a
\* diagnostic and stops the run before the analysis UI, the invocation
\* component not being called.
C7_FailuresContained ==
    /\ ~uncaught
    /\ (run.called /\ ~reply.ok) =>
         /\ "err_gemini" \in shown
         /\ run.response = REQUEST_FAILED
         /\ svcErr = reply.err
         /\ pc = "done"
    /\ (svcErr # "none" /\ ~run.called) =>
         /\ "err_init" \in shown
         /\ pc = "stopped"
         /\ "controls" \notin shown
         /\ run.response = << >>
    /\ svcErr = NoBackend => ~run.called

C7_Witness ==
    /\ pc = "done" /\ run.called /\ ~reply.ok /\ reply.err = "quota"
    /\ svcErr = "quota"
    /\ "err_gemini" \in shown
    /\ run.response = REQUEST_FAILED

\* C8 (as stated): model probing and the ping happen once per process, not
\* once per interaction, and a submission causes only the analysis call.
C8_ProbeOncePerProcess ==
    /\ modelInits <= 1
    /\ (pc = "done" /\ run.called) => GenerateCalls = 1

NonFatalTags == FailureTags \ {"err_no_key"}
HandlerFailureTags == {"warn_jd", "warn_upload", "err_pdf", "warn_extract", "err_gemini"}

\* C9 (as stated): after any non-fatal failure the input controls and the
\* submit button are presented again.
C9_ControlsAfterAnyFailure ==
    (RunEnded /\ shown \cap NonFatalTags # {}) => "controls" \in shown

\* C9 (amended): after a failure found by the submit handler (empty job
\* description, missing upload, parse error, empty extraction, failed analysis
\* call) the run completes with the controls shown; a service failure during
\* model selection or the ping stops the run before the controls.  Any run,
\* also one after a failure, in which a valid submission reaches a working
\* service shows the analysis result.
C9_UsableAfterHandlerFailure ==
    /\ (RunEnded /\ shown \cap HandlerFailureTags # {}) =>
         (pc = "done" /\ "controls" \in shown /\ ~uncaught)
    /\ (RunEnded /\ "err_init" \in shown) => "controls" \notin shown
    /\ (pc = "done" /\ pressed /\ job_desc # << >> /\ uploaded_resume.present
          /\ Readable(uploaded_resume.pdf)
          /\ ~OnlyWhitespace(PageTextsUpTo(uploaded_resume.pdf.pages,
                                           Len(uploaded_resume.pdf.pages)))) =>
         /\ run.called
         /\ "result" \in shown
         /\ reply.ok => (run.response # REQUEST_FAILED /\ shown \cap FailureTags = {})

C9_Witness ==
    /\ failedBefore
    /\ pc = "done" /\ pressed /\ run.called /\ reply.ok
    /\ "controls" \in shown /\ "result" \in shown
    /\ run.response = <<"a">>

NoCredential ==
    \A n \in CredNames : secrets[n] \in {Absent, ""} /\ environ[n] \in {Absent, ""}

\* C10: when no credential source yields a non-empty value the run halts at
\* startup: the service is never configured or called, no model is selected
\* and the analysis UI is never shown.
C10_HaltWithoutCredential ==
    NoCredential =>
        /\ pc \in {"start", "stopped"}
        /\ ~configured
        /\ calls = NoCalls
        /\ MODEL_NAME = ""
        /\ shown \subseteq {"err_no_key"}
        /\ run = NoRun

C10_Witness ==
    /\ NoCredential
    /\ \E n \in CredNames : secrets[n] = "" \/ environ[n] = ""
    /\ pc = "stopped"
    /\ "err_no_key" \in shown
    /\ interactions > 0

====
